---- MODULE Spec2Model ----
(***************************************************************************)
(* FieldKey backend (src/server.py): keyword fallback, argument            *)
(* enrichment, mock tool execution, job history, hybrid / voice routing    *)
(* endpoints and the Whisper transcription pipeline.                       *)
(*                                                                         *)
(* Text is modelled as a sequence of word tokens (the words of the         *)
(* utterance, joined by single spaces in the source).  A string value of   *)
(* an argument is a sequence of tokens as well; the empty string is <<>>.  *)
(* Regular expressions of the source are evaluated on tokens, over the     *)
(* bounded vocabulary Vocabulary below.                                    *)
(***************************************************************************)
EXTENDS Integers, Sequences, FiniteSets, TLC

(***************************************************************************)
(* Vocabulary and character-level facts about its tokens                   *)
(***************************************************************************)
Vocabulary ==
    { "the", "front", "door", "is", "jammed", "on", "deadbolt",
      "invoice", "for", "Sarah", "Miller", "rekey", "$250", "$250.00",
      "hello", "there", "bill", "customer", "Customer", "Locksmith",
      "Service", "service", "general", "TBD", "emergency", "high", "medium",
      "$150.00", "unknown", "none", "N/A", "Generic", " ", "CUSTOMER",
      "completed", "checklist", "residential", "lookup", "find", "a", "part",
      "Schlage", "schedule", "with", "next", "tuesday", "dispatch", "need",
      "backup", "to", "about", "note" }

\* the tokens that occur in utterances (every regular expression of the source
\* matches these tokens whole or not at all)
TextVocabulary ==
    Vocabulary \ { "Locksmith", "Service", "general", "TBD", "high", "medium", "$150.00",
                   "unknown", "none", "N/A", "Generic", " ", "CUSTOMER" }

\* str.lower() of one token
LowerTok(t) ==
    CASE t = "Sarah"     -> "sarah"
      [] t = "Miller"    -> "miller"
      [] t = "Customer"  -> "customer"
      [] t = "CUSTOMER"  -> "customer"
      [] t = "Locksmith" -> "locksmith"
      [] t = "Service"   -> "service"
      [] t = "TBD"       -> "tbd"
      [] t = "N/A"       -> "n/a"
      [] t = "Generic"   -> "generic"
      [] t = "Schlage"   -> "schlage"
      [] OTHER           -> t

\* str.lower() of a text
Lower(s) == [i \in 1..Len(s) |-> LowerTok(s[i])]

\* the whitespace token
IsSpace(t) == t = " "

RECURSIVE LStrip(_)
LStrip(s) == IF s # <<>> /\ IsSpace(Head(s)) THEN LStrip(Tail(s)) ELSE s

RECURSIVE RStrip(_)
RStrip(s) ==
    IF s # <<>> /\ IsSpace(s[Len(s)]) THEN RStrip(SubSeq(s, 1, Len(s) - 1)) ELSE s

\* str.strip()
Strip(s) == RStrip(LStrip(s))

\* least index in 1..Len(s) from `from` on satisfying P, 0 when there is none
FirstFrom(s, from, P(_)) ==
    LET I == {i \in from..Len(s) : P(i)}
    IN  IF I = {} THEN 0 ELSE CHOOSE i \in I : \A j \in I : i <= j

\* " ".join(parts): concatenation of the token sequences
RECURSIVE JoinAll(_)
JoinAll(parts) ==
    IF parts = <<>> THEN <<>> ELSE Head(parts) \o JoinAll(Tail(parts))

(***************************************************************************)
(* Token classes: for each regular-expression fragment of the source, the  *)
(* tokens of Vocabulary it matches.                                        *)
(***************************************************************************)
\* [A-Z][a-z]+ matching a whole token
IsCapWord(t) ==
    t \in {"Sarah", "Miller", "Customer", "Locksmith", "Service", "Generic", "Schlage"}

\* \w+ matching a whole token
IsWordTok(t) == t \notin {"$250", "$250.00", "$150.00", "N/A", " "}

\* \$[\d,]+(?:\.\d{2})?
IsAmount(t) == t \in {"$250", "$250.00", "$150.00"}

\* '.' in raw
HasDot(t) == t \in {"$250.00", "$150.00"}

\* the part of a token before its first '.'
BeforeDot(t) == CASE t = "$250.00" -> "$250" [] t = "$150.00" -> "$150" [] OTHER -> t

\* raw += '.00'
AddCents(t) == CASE t = "$250" -> "$250.00" [] OTHER -> t

\* (.+?)(?:\.|$) started at token s: up to the first '.', or to the end
UpToDot(text, s) ==
    LET d == FirstFrom(text, s, LAMBDA i : HasDot(text[i]))
    IN  IF d = 0 THEN SubSeq(text, s, Len(text))
        ELSE SubSeq(text, s, d - 1) \o <<BeforeDot(text[d])>>

\* (.+?)(?:\s+W|\s*$) started at token s, W a set of (lower-case) stop words
UpToStop(text, s, stop) ==
    LET e == FirstFrom(text, s + 1, LAMBDA i : LowerTok(text[i]) \in stop)
    IN  IF e = 0 THEN SubSeq(text, s, Len(text)) ELSE SubSeq(text, s, e - 1)

\* [A-Z][a-z]+(?:\s+[A-Z][a-z]+){0,more} started at token s (greedy)
RECURSIVE CapRun(_, _, _)
CapRun(text, s, more) ==
    IF s <= Len(text) /\ IsCapWord(text[s])
    THEN <<text[s]>> \o (IF more > 0 THEN CapRun(text, s + 1, more - 1) ELSE <<>>)
    ELSE <<>>

\* (?:intro...)\s+([A-Z][a-z]+(?:\s+[A-Z][a-z]+){0,more}): group 1, <<>> when no match
NameAfter(text, intro, more) ==
    LET i == FirstFrom(text, 1, LAMBDA j : text[j] \in intro /\ CapRun(text, j + 1, 0) # <<>>)
    IN  IF i = 0 THEN <<>> ELSE CapRun(text, i + 1, more)

\* a one-token alternation (a|b|...), IGNORECASE: the matched token, <<>> when none
FirstWord(text, words) ==
    LET i == FirstFrom(text, 1, LAMBDA j : LowerTok(text[j]) \in words)
    IN  IF i = 0 THEN <<>> ELSE <<text[i]>>

\* re.search(pattern, text_lower) for a one-token alternation
HasWord(text, words) == \E i \in 1..Len(text) : LowerTok(text[i]) \in words

(***************************************************************************)
(* Per-tool extraction rules                                               *)
(***************************************************************************)
\* group 1 of (?:on|at|for)\s+(?:the\s+)?(.+?(?:door|lock|gate|entrance|exit)) with
\* the preposition at token i; <<>> when it does not match there
LocGroupFrom(text, s) ==
    LET k == FirstFrom(text, s + 1, LAMBDA j : LowerTok(text[j]) \in {"door"})
    IN  IF s <= Len(text) /\ k # 0 THEN SubSeq(text, s, k) ELSE <<>>

LocMatchAt(text, i) ==
    IF i + 1 <= Len(text) /\ LowerTok(text[i + 1]) = "the"
          /\ LocGroupFrom(text, i + 2) # <<>>
    THEN LocGroupFrom(text, i + 2)
    ELSE LocGroupFrom(text, i + 1)

_extract_diagnose_args(text) ==
    LET i    == FirstFrom(text, 1, LAMBDA j : LowerTok(text[j]) \in {"on", "for"}
                                              /\ LocMatchAt(text, j) # <<>>)
        type == FirstWord(text, {"deadbolt"})
    IN  (IF type # <<>> THEN [lock_type |-> Strip(type)] ELSE <<>>)
        @@ (IF i # 0 THEN [location |-> Strip(LocMatchAt(text, i))] ELSE <<>>)
        @@ [symptoms |-> text]

_extract_report_args(text) ==
    LET name == NameAfter(text, {"for", "customer"}, 1)
        svc  == FirstWord(text, {"rekey"})
    IN  (IF svc # <<>> THEN [service_type |-> Strip(svc)] ELSE <<>>)
        @@ [customer_name |-> IF name # <<>> THEN Strip(name) ELSE <<"Customer">>]
        @@ [service_type |-> <<"service">>]

_extract_checklist_args(text) ==
    LET Two(j) == j + 1 <= Len(text) /\ LowerTok(text[j]) = "residential"
                  /\ LowerTok(text[j + 1]) = "rekey"
        i == FirstFrom(text, 1, LAMBDA j : Two(j) \/ LowerTok(text[j]) = "rekey")
    IN  [job_type |-> IF i = 0 THEN <<"general">>
                      ELSE IF Two(i) THEN Strip(SubSeq(text, i, i + 1))
                      ELSE Strip(<<text[i]>>)]

\* group 1 of (?:look\s*up|find|search\s+for)\s+(?:a\s+)?(.+?)(?:\s+for|\s*$) with the
\* verb at token i
PartMatchAt(text, i) ==
    IF i + 2 <= Len(text) /\ LowerTok(text[i + 1]) = "a"
    THEN UpToStop(text, i + 2, {"for"})
    ELSE IF i + 1 <= Len(text) THEN UpToStop(text, i + 1, {"for"}) ELSE <<>>

_extract_part_args(text) ==
    LET i     == FirstFrom(text, 1, LAMBDA j : LowerTok(text[j]) \in {"lookup", "find"}
                                               /\ PartMatchAt(text, j) # <<>>)
        brand == FirstWord(text, {"schlage"})
    IN  (IF brand # <<>> THEN [brand |-> Strip(brand)] ELSE <<>>)
        @@ [query |-> IF i # 0 THEN Strip(PartMatchAt(text, i)) ELSE text]

_extract_followup_args(text) ==
    LET name == NameAfter(text, {"with", "for"}, 1)
        Nxt(j) == j + 1 <= Len(text) /\ LowerTok(text[j]) = "next" /\ IsWordTok(text[j + 1])
        d == FirstFrom(text, 1, LAMBDA j : Nxt(j) \/ LowerTok(text[j]) = "tuesday")
        r == FirstFrom(text, 1, LAMBDA j : LowerTok(text[j]) \in {"for", "to", "about"}
                                           /\ j + 1 <= Len(text))
    IN  (IF r # 0 THEN [reason |-> Strip(UpToStop(text, r + 1, {"next", "on"}))] ELSE <<>>)
        @@ [date |-> IF d = 0 THEN <<"TBD">>
                     ELSE IF Nxt(d) THEN Strip(SubSeq(text, d, d + 1))
                     ELSE Strip(<<text[d]>>)]
        @@ [customer_name |-> IF name # <<>> THEN Strip(name) ELSE <<"Customer">>]

_extract_dispatch_args(text) ==
    LET i == FirstFrom(text, 1, LAMBDA j : LowerTok(text[j]) = "need" /\ j + 1 <= Len(text))
    IN  [reason  |-> IF i # 0 THEN Strip(UpToDot(text, i + 1)) ELSE text,
         urgency |-> IF HasWord(text, {"emergency"}) THEN <<"emergency">>
                     ELSE IF HasWord(text, {"backup"}) THEN <<"high">>
                     ELSE <<"medium">>]

_extract_invoice_args(text) ==
    LET name == NameAfter(text, {"for", "customer"}, Len(text))
        c    == FirstFrom(text, 1, LAMBDA j : CapRun(text, j, 1) # <<>>
                                              /\ Len(CapRun(text, j, 1)) = 2)
        svc  == FirstWord(text, {"rekey", "deadbolt"})
        amt  == FirstFrom(text, 1, LAMBDA j : IsAmount(text[j]))
        n    == FirstFrom(text, 1, LAMBDA j : LowerTok(text[j]) = "note" /\ j + 1 <= Len(text))
    IN  (IF n # 0 THEN [notes |-> Strip(UpToDot(text, n + 1))] ELSE <<>>)
        @@ [amount |-> IF amt = 0 THEN <<"$150.00">>
                       ELSE IF HasDot(text[amt]) THEN <<text[amt]>>
                       ELSE <<AddCents(text[amt])>>]
        @@ (IF svc # <<>> THEN [service_type |-> Strip(svc)] ELSE <<>>)
        @@ [customer_name |-> IF name # <<>> THEN Strip(name)
                              ELSE IF c # 0 THEN Strip(CapRun(text, c, 1))
                              ELSE <<"Customer">>]
        @@ [service_type |-> <<"Locksmith", "Service">>]

(***************************************************************************)
(* Tool catalog                                                            *)
(***************************************************************************)
LOCKSMITH_TOOLS ==
    << [name |-> "diagnose_lock_fault",
        properties |-> {"location", "symptoms", "lock_type"},
        required |-> {"location", "symptoms"}],
       [name |-> "log_service_report",
        properties |-> {"customer_name", "service_type", "notes"},
        required |-> {"customer_name", "service_type"}],
       [name |-> "generate_checklist",
        properties |-> {"job_type"},
        required |-> {"job_type"}],
       [name |-> "lookup_part",
        properties |-> {"query", "brand"},
        required |-> {"query"}],
       [name |-> "schedule_followup",
        properties |-> {"customer_name", "date", "reason"},
        required |-> {"customer_name", "date"}],
       [name |-> "contact_dispatch",
        properties |-> {"reason", "urgency"},
        required |-> {"reason"}],
       [name |-> "generate_invoice",
        properties |-> {"customer_name", "service_type", "amount", "notes"},
        required |-> {"customer_name", "service_type"}] >>

\* dict.get(key, default)
Get(d, key, default) == IF key \in DOMAIN d THEN d[key] ELSE default

(***************************************************************************)
(* Mock tool execution                                                     *)
(***************************************************************************)
\* _generate_invoice_pdf: renders and writes the PDF; pdfOk is whether the renderer
\* (fpdf import, font encoding, file output) succeeds
_generate_invoice_pdf(invoice_id, customer, service, amount, notes, pdfOk) ==
    IF pdfOk THEN [raised |-> FALSE, path |-> <<"INVOICE_DIR", invoice_id>>]
    ELSE [raised |-> TRUE]

\* execute_tool: [raised |-> FALSE, result |-> payload], or [raised |-> TRUE] when an
\* exception leaves the function
execute_tool(name, arguments, pdfOk) ==
    CASE name = "diagnose_lock_fault" ->
           [raised |-> FALSE,
            result |-> [diagnosis |-> "Likely worn tailpiece or misaligned strike plate",
                        location |-> Get(arguments, "location", <<"door">>),
                        symptoms_confirmed |-> Get(arguments, "symptoms", <<"issue">>),
                        lock_type |-> Get(arguments, "lock_type", <<"deadbolt">>),
                        difficulty |-> "moderate"]]
      [] name = "log_service_report" ->
           [raised |-> FALSE,
            result |-> [status |-> "logged",
                        report_id |-> "SR-uuid",
                        customer |-> Get(arguments, "customer_name", <<>>),
                        service |-> Get(arguments, "service_type", <<>>),
                        notes |-> Get(arguments, "notes", <<"No", "additional", "notes">>)]]
      [] name = "generate_checklist" ->
           LET job_type == Lower(Get(arguments, "job_type", <<"general">>))
           IN  [raised |-> FALSE,
                result |-> [job_type |-> job_type,
                            checklist |->
                              IF job_type \in { <<"residential", "rekey">>,
                                                <<"commercial", "install">>,
                                                <<"auto", "lockout">> }
                              THEN job_type ELSE <<"default">>]]
      [] name = "lookup_part" ->
           [raised |-> FALSE,
            result |-> [part |-> Get(arguments, "query", <<>>),
                        brand |-> Get(arguments, "brand", <<"Generic">>),
                        found |-> TRUE,
                        description |-> Get(arguments, "brand", <<"Generic">>)
                                        \o Get(arguments, "query", <<>>)]]
      [] name = "schedule_followup" ->
           [raised |-> FALSE,
            result |-> [status |-> "scheduled",
                        appointment_id |-> "APT-uuid",
                        customer |-> Get(arguments, "customer_name", <<>>),
                        date |-> Get(arguments, "date", <<>>),
                        reason |-> Get(arguments, "reason", <<"Follow-up", "service">>)]]
      [] name = "contact_dispatch" ->
           LET urgency == Get(arguments, "urgency", <<"medium">>)
           IN  [raised |-> FALSE,
                result |-> [status |-> "dispatched",
                            dispatch_id |-> "DSP-uuid",
                            reason |-> Get(arguments, "reason", <<>>),
                            urgency |-> urgency,
                            eta |-> IF urgency \in {<<"high">>, <<"emergency">>}
                                    THEN "10-15 minutes" ELSE "20-30 minutes"]]
      [] name = "generate_invoice" ->
           LET invoice_id == "INV-uuid"
               customer == Get(arguments, "customer_name", <<"Customer">>)
               service  == Get(arguments, "service_type", <<"Locksmith", "Service">>)
               amount   == Get(arguments, "amount", <<"$150.00">>)
               notes    == Get(arguments, "notes", <<>>)
               pdf      == _generate_invoice_pdf(invoice_id, customer, service, amount,
                                                 notes, pdfOk)
           IN  IF pdf.raised THEN [raised |-> TRUE]
               ELSE [raised |-> FALSE,
                     result |-> [status |-> "generated",
                                 invoice_id |-> invoice_id,
                                 customer |-> customer,
                                 service |-> service,
                                 amount |-> amount,
                                 pdf_url |-> <<"/api/invoice", invoice_id>>]]
      [] OTHER ->
           [raised |-> FALSE, result |-> [error |-> <<"Unknown tool:", name>>]]

(***************************************************************************)
(* Keyword fallback                                                        *)
(***************************************************************************)
\* m.get("role") == "user"
IsUser(m) == "role" \in DOMAIN m /\ m.role = "user"

\* " ".join(m["content"] for m in messages if m.get("role") == "user") raises KeyError
UserTextRaises(messages) ==
    \E i \in 1..Len(messages) : IsUser(messages[i]) /\ "content" \notin DOMAIN messages[i]

\* " ".join(m["content"] for m in messages if m.get("role") == "user")
UserText(messages) ==
    LET users == SelectSeq(messages, IsUser)
    IN  JoinAll([i \in 1..Len(users) |-> users[i].content])

\* the rule table: tool name and remote flag, in the order of `patterns`
PatternTools ==
    << "diagnose_lock_fault", "log_service_report", "generate_checklist", "lookup_part",
       "schedule_followup", "contact_dispatch", "generate_invoice" >>

\* a rule table without a remote flag (not the code: the invoice rule carries True)
IsCloudNever(tool_name) == FALSE

IsCloud(tool_name) == tool_name = "generate_invoice"

\* _re.search(pattern, text_lower) for the activation pattern of the rule
Activates(tool_name, text_lower) ==
    CASE tool_name = "diagnose_lock_fault" -> HasWord(text_lower, {"jammed"})
      [] tool_name = "log_service_report"  -> HasWord(text_lower, {"completed"})
      [] tool_name = "generate_checklist"  -> HasWord(text_lower, {"checklist"})
      [] tool_name = "lookup_part"         -> HasWord(text_lower, {"lookup", "part"})
      [] tool_name = "schedule_followup"   ->
           \/ HasWord(text_lower, {"schedule"})
           \/ \E i \in 1..(Len(text_lower) - 1) :
                 text_lower[i] = "next" /\ text_lower[i + 1] = "tuesday"
      [] tool_name = "contact_dispatch"    ->
           HasWord(text_lower, {"dispatch", "backup", "emergency"})
      [] tool_name = "generate_invoice"    -> HasWord(text_lower, {"invoice", "bill"})
      [] OTHER -> FALSE

\* the extractor of a rule, and _EXTRACTORS.get(name)
HasExtractor(name) == \E i \in 1..Len(PatternTools) : PatternTools[i] = name

Extract(name, text) ==
    CASE name = "diagnose_lock_fault" -> _extract_diagnose_args(text)
      [] name = "log_service_report"  -> _extract_report_args(text)
      [] name = "generate_checklist"  -> _extract_checklist_args(text)
      [] name = "lookup_part"         -> _extract_part_args(text)
      [] name = "schedule_followup"   -> _extract_followup_args(text)
      [] name = "contact_dispatch"    -> _extract_dispatch_args(text)
      [] name = "generate_invoice"    -> _extract_invoice_args(text)

\* rules that fire on the pattern alone (not the code: line 404 also asks for the
\* tool name in the catalog)
FiresWithoutCatalog(tool_name, tool_names, text_lower) == Activates(tool_name, text_lower)

\* the rules that fire: tool in the catalog and pattern found
Fires(tool_name, tool_names, text_lower) ==
    tool_name \in tool_names /\ Activates(tool_name, text_lower)

\* an extraction from the lower-cased text (not the code: line 405 passes user_text)
ExtractionTextLowered(user_text) == Lower(user_text)

\* line 405: the text the extractor of a rule that fired is given
ExtractionText(user_text) == user_text

\* _keyword_fallback; elapsed is the time it measures for itself
_keyword_fallback(messages, tools, elapsed) ==
    IF UserTextRaises(messages) \/ \E i \in 1..Len(tools) : "name" \notin DOMAIN tools[i]
    THEN [raised |-> TRUE]
    ELSE LET user_text  == UserText(messages)
             text_lower == Lower(user_text)
             tool_names == {tools[i].name : i \in 1..Len(tools)}
             fired == SelectSeq(PatternTools, LAMBDA n : Fires(n, tool_names, text_lower))
         IN  [raised |-> FALSE,
              function_calls |->
                  [i \in 1..Len(fired) |->
                      [name |-> fired[i],
                       arguments |-> Extract(fired[i], ExtractionText(user_text))]],
              total_time_ms |-> elapsed,
              source |-> IF \E i \in 1..Len(fired) : IsCloud(fired[i])
                         THEN "cloud" ELSE "on-device"]

(***************************************************************************)
(* Argument enrichment                                                     *)
(***************************************************************************)
_DEFAULT_VALUES ==
    { <<>>, <<"Customer">>, <<"Locksmith", "Service">>, <<"unknown">>, <<"none">>, <<"N/A">> }

\* argument values that are not strings: the one token names the scalar
NonStrings == { <<"int 0">>, <<"int 7">>, <<"bool False">>, <<"bool True">> }

\* not existing: the empty string, 0 and False are falsy
IsFalsy(existing) == existing \in { <<>>, <<"int 0">>, <<"bool False">> }

\* str(existing)
Str(existing) ==
    CASE existing = <<"int 0">>      -> <<"0">>
      [] existing = <<"int 7">>      -> <<"7">>
      [] existing = <<"bool False">> -> <<"False">>
      [] existing = <<"bool True">>  -> <<"True">>
      [] OTHER                       -> existing

\* not existing or str(existing).strip() in _DEFAULT_VALUES
Fillable(existing) == IsFalsy(existing) \/ Strip(Str(existing)) \in _DEFAULT_VALUES

\* an enrichment that adds the extracted value behind the value it finds (not the
\* code: line 548 replaces the value)
_enrich_arguments_appending(name, args, user_text) ==
    IF ~HasExtractor(name) THEN args
    ELSE LET extracted == Extract(name, user_text)
         IN  [key \in DOMAIN args \cup DOMAIN extracted |->
                 IF key \in DOMAIN extracted /\ Fillable(Get(args, key, <<>>))
                 THEN Get(args, key, <<>>) \o extracted[key] ELSE args[key]]

_enrich_arguments(name, args, user_text) ==
    IF ~HasExtractor(name) THEN args
    ELSE LET extracted == Extract(name, user_text)
         IN  [key \in DOMAIN args \cup DOMAIN extracted |->
                 IF key \in DOMAIN extracted /\ Fillable(Get(args, key, <<>>))
                 THEN extracted[key] ELSE args[key]]

(***************************************************************************)
(* Routing: primary router with keyword fallback, enrichment, execution    *)
(***************************************************************************)
\* round(x, 1) of a time in hundredths of a millisecond, in tenths
Round1(x) ==
    LET q == x \div 10
        m == x % 10
    IN  IF m < 5 THEN q ELSE IF m > 5 THEN q + 1 ELSE q + (q % 2)

\* the routing result taken from what _keyword_fallback did
FallbackRoute(fb) ==
    [fallback_called |-> TRUE, raised |-> fb.raised,
     result |-> IF fb.raised THEN <<>>
                ELSE [function_calls |-> fb.function_calls,
                      total_time_ms |-> fb.total_time_ms,
                      source |-> fb.source]]

\* a routing step that also falls back when the primary router returned no call
\* (not the code: line 608 falls back on an exception only)
RouteWithFallbackOnEmpty(messages, tools, primary, fb_ms) ==
    IF primary.raised \/ primary.result.function_calls = <<>>
    THEN FallbackRoute(_keyword_fallback(messages, tools, fb_ms))
    ELSE [fallback_called |-> FALSE, raised |-> FALSE, result |-> primary.result]

\* try: generate_hybrid(messages, tools) / except Exception: _keyword_fallback(...)
\* primary is the outcome of generate_hybrid: [raised |-> TRUE] or
\* [raised |-> FALSE, result |-> the routing result it returned]
RouteWithFallback(messages, tools, primary, fb_ms) ==
    IF primary.raised
    THEN FallbackRoute(_keyword_fallback(messages, tools, fb_ms))
    ELSE [fallback_called |-> FALSE, raised |-> FALSE, result |-> primary.result]

\* an enrichment loop that leaves the arguments as routed (not the code: lines
\* 619-622 and 779-782 replace them)
EnrichCallsSkipped(result, user_text) ==
    LET calls == Get(result, "function_calls", <<>>)
    IN  [i \in 1..Len(calls) |->
            [name |-> calls[i].name, arguments |-> Get(calls[i], "arguments", <<>>)]]

\* for call in result.get("function_calls", []):
\*     call["arguments"] = _enrich_arguments(call["name"], call.get("arguments", {}), text)
EnrichCalls(result, user_text) ==
    LET calls == Get(result, "function_calls", <<>>)
    IN  [i \in 1..Len(calls) |->
            [name |-> calls[i].name,
             arguments |-> _enrich_arguments(calls[i].name,
                                             Get(calls[i], "arguments", <<>>), user_text)]]

\* the execution loop: the entries of the calls executed before the first call whose
\* execute_tool raises, and whether one raised
ExecuteCalls(calls, pdfOk) ==
    LET out == [i \in 1..Len(calls) |-> execute_tool(calls[i].name, calls[i].arguments, pdfOk)]
        bad == FirstFrom(out, 1, LAMBDA i : out[i].raised)
        n   == IF bad = 0 THEN Len(calls) ELSE bad - 1
    IN  [raised |-> bad # 0,
         executed |-> [i \in 1..n |-> [name |-> calls[i].name,
                                       arguments |-> calls[i].arguments,
                                       result |-> out[i].result]]]

\* _job_history.append({**entry, "timestamp": ..., "source": ..., "latency_ms": ...})
\* (the timestamp is left out of the model)
HistoryEntry(entry, source, latency_ms) ==
    [name |-> entry.name, arguments |-> entry.arguments, result |-> entry.result,
     source |-> source, latency_ms |-> latency_ms]

\* a log that keeps one entry per distinct call (not the code: list.append keeps all)
AppendHistoryDistinct(history, entry) ==
    IF \E i \in 1..Len(history) : history[i] = entry THEN history
    ELSE Append(history, entry)

\* a log that puts the newest entry first (not the code: list.append adds at the end)
AppendHistoryFirst(history, entry) == <<entry>> \o history

AppendHistory(history, entry) == Append(history, entry)

RECURSIVE AppendAllHistory(_, _)
AppendAllHistory(history, entries) ==
    IF entries = <<>> THEN history
    ELSE AppendAllHistory(AppendHistory(history, Head(entries)), Tail(entries))

\* what the routing step did: observed, not program state
RouteInfo(r) ==
    [fallback_called |-> r.fallback_called,
     routed |-> IF r.raised THEN <<>> ELSE Get(r.result, "function_calls", <<>>)]

\* what a handler that raised leaves behind: no response body, an HTTP 500
Failure(endpoint, error, route, user_text, executed) ==
    [endpoint |-> endpoint, status |-> "error", error |-> error,
     fallback_called |-> route.fallback_called,
     routed |-> route.routed, user_text |-> user_text,
     function_calls |-> executed, source |-> "none", latency_ms |-> 0]

\* the response body of a routing endpoint
Response(endpoint, route, user_text, executed, source, latency_ms) ==
    [endpoint |-> endpoint, status |-> "ok", error |-> "none",
     fallback_called |-> route.fallback_called,
     routed |-> route.routed, user_text |-> user_text,
     function_calls |-> executed, source |-> source, latency_ms |-> latency_ms]

\* hybrid_endpoint, lines 624-646: x is what the execution loop did
HybridExecute(route, user_text, source, latency_ms, x) ==
    [resp |-> IF x.raised
              THEN Failure("hybrid", "execute_tool", route, user_text, x.executed)
              ELSE Response("hybrid", route, user_text, x.executed, source, latency_ms),
     entries |-> [i \in 1..Len(x.executed) |->
                     HistoryEntry(x.executed[i], source, latency_ms)]]

\* hybrid_endpoint, lines 614-646: r is what the routing step did
HybridAfterRouting(messages, r, elapsed, pdfOk) ==
    IF r.raised
    THEN [resp |-> Failure("hybrid", "fallback", RouteInfo(r), <<>>, <<>>),
          entries |-> <<>>]
    ELSE IF UserTextRaises(messages)
    THEN [resp |-> Failure("hybrid", "user_text", RouteInfo(r), <<>>, <<>>),
          entries |-> <<>>]
    ELSE HybridExecute(RouteInfo(r), UserText(messages),
                       Get(r.result, "source", "unknown"), Round1(elapsed),
                       ExecuteCalls(EnrichCalls(r.result, UserText(messages)), pdfOk))

\* hybrid_endpoint: the response (or failure) and the history entries it appends
HybridHandler(messages, tools, primary, elapsed, fb_ms, pdfOk) ==
    HybridAfterRouting(messages, RouteWithFallback(messages, tools, primary, fb_ms),
                       elapsed, pdfOk)

\* process_voice_endpoint, lines 784-799: x is what the execution loop did; nothing is
\* appended to _job_history
VoiceExecute(route, transcribe_text, source, latency_ms, x) ==
    [resp |-> IF x.raised
              THEN Failure("process_voice", "execute_tool", route, transcribe_text,
                           x.executed)
              ELSE Response("process_voice", route, transcribe_text, x.executed, source,
                            latency_ms),
     entries |-> <<>>]

\* process_voice_endpoint, lines 776-799: r is what the routing step did
VoiceAfterRouting(transcribe_text, r, routing_ms, pdfOk) ==
    IF r.raised
    THEN [resp |-> Failure("process_voice", "fallback", RouteInfo(r),
                           <<>>, <<>>),
          entries |-> <<>>]
    ELSE VoiceExecute(RouteInfo(r), transcribe_text,
                      Get(r.result, "source", "unknown"),
                      Round1(Get(r.result, "total_time_ms", routing_ms)),
                      ExecuteCalls(EnrichCalls(r.result, transcribe_text), pdfOk))

\* process_voice_endpoint from "Step 2" on: the response (or failure) and the history
\* entries it appends
VoiceRouting(transcribe_text, primary, routing_ms, fb_ms, pdfOk) ==
    VoiceAfterRouting(transcribe_text,
                      RouteWithFallback(<< [role |-> "user", content |-> transcribe_text] >>,
                                        LOCKSMITH_TOOLS, primary, fb_ms),
                      routing_ms, pdfOk)

(***************************************************************************)
(* Scoring (src/benchmark.py).  A score is an exact fraction in lowest      *)
(* terms, [num |-> n, den |-> d] with d > 0, where the source computes a    *)
(* float.                                                                   *)
(***************************************************************************)
RECURSIVE GCD(_, _)
GCD(a, b) == IF b = 0 THEN a ELSE GCD(b, a % b)

\* n / d
Frac(n, d) == [num |-> n \div GCD(n, d), den |-> d \div GCD(n, d)]
FracAdd(x, y) == Frac(x.num * y.den + y.num * x.den, x.den * y.den)
FracMul(x, y) == Frac(x.num * y.num, x.den * y.den)
FracDiv(x, y) == Frac(x.num * y.den, x.den * y.num)

\* _normalize: v.strip().lower() for a string, v itself otherwise
_normalize(v) == IF v \in NonStrings THEN v ELSE Lower(Strip(v))

\* a comparison that also fails on keys the expected call does not have (not the
\* code: lines 788-792 look at the expected keys only)
_call_matches_same_keys(predicted, expected) ==
    /\ predicted.name = expected.name
    /\ DOMAIN Get(predicted, "arguments", <<>>) = DOMAIN Get(expected, "arguments", <<>>)
    /\ \A key \in DOMAIN Get(expected, "arguments", <<>>) :
          _normalize(predicted.arguments[key]) = _normalize(expected.arguments[key])

\* _call_matches(predicted, expected)
_call_matches(predicted, expected) ==
    /\ predicted.name = expected.name
    /\ \A key \in DOMAIN Get(expected, "arguments", <<>>) :
          /\ key \in DOMAIN Get(predicted, "arguments", <<>>)
          /\ _normalize(predicted.arguments[key]) = _normalize(expected.arguments[key])

\* a loop that takes the first matching predicted call whether it was used or not
\* (not the code: line 807 tests `i not in used`)
RECURSIVE MatchLoopReusing(_, _, _, _)
MatchLoopReusing(predicted_calls, expected_calls, k, used) ==
    IF k > Len(expected_calls) THEN used
    ELSE MatchLoopReusing(predicted_calls, expected_calls, k + 1,
                          used \cup
                          {i \in 1..Len(predicted_calls) :
                              /\ _call_matches(predicted_calls[i], expected_calls[k])
                              /\ \A j \in 1..(i - 1) :
                                    ~_call_matches(predicted_calls[j], expected_calls[k])})

\* the loop of compute_f1 from expected_calls[k] on: the set `used` when it ends
RECURSIVE MatchLoop(_, _, _, _)
MatchLoop(predicted_calls, expected_calls, k, used) ==
    IF k > Len(expected_calls) THEN used
    ELSE MatchLoop(predicted_calls, expected_calls, k + 1,
                   used \cup
                   {i \in 1..Len(predicted_calls) :
                       /\ i \notin used
                       /\ _call_matches(predicted_calls[i], expected_calls[k])
                       /\ \A j \in 1..(i - 1) :
                             j \in used
                             \/ ~_call_matches(predicted_calls[j], expected_calls[k])})

\* the pairs <<k, i>> where the pass for expected_calls[k] added i to `used`
Taken(predicted_calls, expected_calls) ==
    { ki \in (1..Len(expected_calls)) \X (1..Len(predicted_calls)) :
        /\ ki[2] \in MatchLoop(predicted_calls, SubSeq(expected_calls, 1, ki[1]), 1, {})
        /\ ki[2] \notin MatchLoop(predicted_calls, SubSeq(expected_calls, 1, ki[1] - 1), 1, {}) }

\* matched, after the loop
Matched(predicted_calls, expected_calls) ==
    Cardinality(MatchLoop(predicted_calls, expected_calls, 1, {}))

\* the mean of precision and recall (not the code: lines 814-816 return the harmonic
\* mean)
ArithmeticMean(precision, recall) == FracDiv(FracAdd(precision, recall), Frac(2, 1))

\* lines 814-816
HarmonicMean(precision, recall) ==
    IF FracAdd(precision, recall).num = 0 THEN Frac(0, 1)
    ELSE FracDiv(FracMul(FracMul(Frac(2, 1), precision), recall),
                 FracAdd(precision, recall))

\* lines 812-816, given matched
F1Of(matched, predicted_calls, expected_calls) ==
    HarmonicMean(Frac(matched, Len(predicted_calls)), Frac(matched, Len(expected_calls)))

compute_f1(predicted_calls, expected_calls) ==
    IF predicted_calls = <<>> /\ expected_calls = <<>> THEN Frac(1, 1)
    ELSE IF predicted_calls = <<>> \/ expected_calls = <<>> THEN Frac(0, 1)
    ELSE F1Of(Matched(predicted_calls, expected_calls), predicted_calls, expected_calls)

\* x - y, sum(...) and max(0, x) on fractions
FracSub(x, y) == Frac(x.num * y.den - y.num * x.den, x.den * y.den)

RECURSIVE SumFracs(_)
SumFracs(xs) == IF xs = <<>> THEN Frac(0, 1) ELSE FracAdd(Head(xs), SumFracs(Tail(xs)))

Max0(x) == IF x.num < 0 THEN Frac(0, 1) ELSE x

\* compute_total_score: difficulty_weights, in the order of the dict
Difficulties == <<"easy", "medium", "hard">>
difficulty_weights == [easy |-> Frac(20, 100), medium |-> Frac(30, 100), hard |-> Frac(50, 100)]
time_baseline_ms == 500

\* group = [r for r in results if r["difficulty"] == difficulty]
Group(results, difficulty) == SelectSeq(results, LAMBDA r : r.difficulty = difficulty)

avg_f1(group) ==
    FracDiv(SumFracs([i \in 1..Len(group) |-> group[i].f1]), Frac(Len(group), 1))
avg_time(group) ==
    FracDiv(SumFracs([i \in 1..Len(group) |-> Frac(group[i].total_time_ms, 1)]),
            Frac(Len(group), 1))
on_device_ratio(group) ==
    Frac(Cardinality({i \in 1..Len(group) : group[i].source = "on-device"}), Len(group))

time_score_unclamped(avg) == FracSub(Frac(1, 1), FracDiv(avg, Frac(time_baseline_ms, 1)))

time_score(avg) == Max0(FracSub(Frac(1, 1), FracDiv(avg, Frac(time_baseline_ms, 1))))

\* the weights of the docstring, lines 880-883 (not the code: line 905 has 0.60, 0.15,
\* 0.25)
level_score_documented(f1, time, ratio) ==
    FracAdd(FracAdd(FracMul(Frac(50, 100), f1), FracMul(Frac(25, 100), time)),
            FracMul(Frac(25, 100), ratio))

\* line 905
level_score(f1, time, ratio) ==
    FracAdd(FracAdd(FracMul(Frac(60, 100), f1), FracMul(Frac(15, 100), time)),
            FracMul(Frac(25, 100), ratio))

LevelScoreOf(group) ==
    level_score(avg_f1(group), time_score(avg_time(group)), on_device_ratio(group))

\* the scores of the levels that have results
LevelScores(results) ==
    [d \in {e \in {"easy", "medium", "hard"} : Group(results, e) # <<>>}
        |-> LevelScoreOf(Group(results, d))]

\* what one pass of the loop adds to total_score
Contribution(results, difficulty) ==
    IF Group(results, difficulty) = <<>> THEN Frac(0, 1)
    ELSE FracMul(difficulty_weights[difficulty], LevelScoreOf(Group(results, difficulty)))

compute_total_score(results) ==
    FracMul(SumFracs([i \in 1..Len(Difficulties) |-> Contribution(results, Difficulties[i])]),
            Frac(100, 1))

(***************************************************************************)
(* Bounds and inputs                                                       *)
(***************************************************************************)
\* transcribing requests (/api/transcribe, /api/process_voice) of a run
NumRequests == 2

\* history entries of a run
MaxHistory == 2

\* words of an utterance given to a function called directly
MaxTextLen == 2

\* calls in a predicted or expected list given to compute_f1
MaxCalls == 2

\* results given to compute_total_score
MaxResults == 2

\* ThreadPoolExecutor(max_workers=2)
POOL_WORKERS == 2

Reqs == 1..NumRequests

\* the thread started by startup_preload
PRELOAD == 0

\* the threads that call _get_whisper: the preload thread and the requests' workers
Threads == {PRELOAD} \cup Reqs

\* the workload: odd requests are POST /api/process_voice, even ones POST /api/transcribe
KindOf(r) == IF r % 2 = 1 THEN "process_voice" ELSE "transcribe"

T_INV  == <<"invoice", "for", "Sarah", "Miller", "rekey", "$250">>
T_JAM  == <<"deadbolt", "jammed", "on", "the", "front", "door">>
T_BILL == <<"bill", "customer">>

\* request bodies of /api/hybrid: messages and tools (<<>> is None)
HybridMessages ==
    { << [role |-> "user", content |-> T_INV] >>,
      << [role |-> "system", content |-> <<"hello">>],
         [role |-> "user", content |-> T_JAM],
         [role |-> "user", content |-> T_BILL] >>,
      << [role |-> "user"] >> }

ToolOptions == { <<>>, <<LOCKSMITH_TOOLS[1], LOCKSMITH_TOOLS[4]>> }

\* outcomes of generate_hybrid
PrimaryOutcomes ==
    { [raised |-> TRUE],
      [raised |-> FALSE,
       result |-> [function_calls |-> <<>>, source |-> "on-device", total_time_ms |-> 900]],
      [raised |-> FALSE,
       result |-> [function_calls |->
                     << [name |-> "generate_invoice",
                         arguments |-> [customer_name |-> <<"Customer">>,
                                        amount |-> <<"$250.00">>]],
                        [name |-> "get_weather",
                         arguments |-> [location |-> <<"front", "door">>]] >>,
                   source |-> "cloud", total_time_ms |-> 900]] }

\* measured times, in hundredths of a millisecond
WallClock == {1234}
FallbackClock == {10}

\* outcomes of cactus_transcribe: it raises, returns a string that is not JSON, or
\* returns a JSON object whose "response" is the text
RawOutcomes ==
    { [kind |-> "raise"], [kind |-> "badjson"],
      [kind |-> "json", response |-> <<>>],
      [kind |-> "json", response |-> <<"deadbolt", "jammed", " ">>] }

\* outcomes of the upload's extension and of _convert_to_wav: a .wav upload; ffmpeg
\* succeeded; ffmpeg failed and wrote nothing; ffmpeg timed out or raised, or left an
\* empty file; ffmpeg exited with an error and left a non-empty file
ConvertOutcomes == {"is_wav", "converted", "failed", "failed_partial", "failed_output"}

\* tool filters of /api/history (<<>> is None)
HistoryFilters == {"", "generate_invoice"}

(***************************************************************************)
(* State                                                                   *)
(***************************************************************************)
VARIABLES
    pc,            \* position of each transcribing request
    loc,           \* its locals while it runs: whisper, wav_path, the result of _do_transcribe
    whisperModel,  \* _whisper_model: 0 is None, n > 0 the n-th instance
    inits,         \* cactus_init calls that returned an instance
    whisperLock,   \* _whisper_lock: 0 is free, else the request whose thread holds it
    holds,         \* acquisitions of _whisper_lock so far
    lastOps,       \* the last two calls made on the Whisper resource
    files,         \* the temporary files that exist: <<request, "tmp" or "wav">>
    jobHistory,    \* _job_history
    lastResp,      \* the exchange most recently completed: the response, with the
                   \* request it answers (observed)
    hybridExecuted \* execute_tool calls that returned in /api/hybrid handlers (observed)

vars == <<pc, loc, whisperModel, inits, whisperLock, holds, lastOps, files,
          jobHistory, lastResp, hybridExecuted>>

whisperVars == <<whisperModel, inits, whisperLock, holds, lastOps>>

NoLoc == [whisper |-> 0, wav_path |-> "none", ret |-> [kind |-> "none"]]

Init ==
    /\ pc = [t \in Threads |-> "idle"]
    /\ loc = [r \in Reqs |-> NoLoc]
    /\ whisperModel = 0
    /\ inits = 0
    /\ whisperLock = 0
    /\ holds = 0
    /\ lastOps = <<>>
    /\ files = {}
    /\ jobHistory = <<>>
    /\ lastResp = [endpoint |-> "none"]
    /\ hybridExecuted = 0

(***************************************************************************)
(* Handlers that run on the event loop without awaiting                    *)
(***************************************************************************)
\* tools = req.tools or LOCKSMITH_TOOLS
ToolsOr(opt) == IF opt = <<>> THEN LOCKSMITH_TOOLS ELSE opt

\* an exchange: what the handler did, with the request, the router outcome it was
\* given and the time it measured around the routing call (observed, not program
\* state)
Exchange(h, messages, tools, primary, wall) ==
    [resp |-> h.resp @@ [request |-> [messages |-> messages, tools |-> tools,
                                      primary |-> primary, wall |-> wall]],
     entries |-> h.entries]

\* what hybrid_endpoint does on each request body, router outcome and clock reading
HybridOutcomes ==
    { Exchange(HybridHandler(messages, ToolsOr(opt), primary, elapsed, fb_ms, pdfOk),
               messages, ToolsOr(opt), primary, elapsed) :
        messages \in HybridMessages, opt \in ToolOptions, primary \in PrimaryOutcomes,
        elapsed \in WallClock, fb_ms \in FallbackClock, pdfOk \in BOOLEAN }

\* POST /api/hybrid
HybridEndpoint ==
    \E h \in HybridOutcomes :
        /\ Len(jobHistory) + Len(h.entries) <= MaxHistory
        /\ hybridExecuted + Len(h.resp.function_calls) <= MaxHistory
        /\ jobHistory' = AppendAllHistory(jobHistory, h.entries)
        /\ hybridExecuted' = hybridExecuted + Len(h.resp.function_calls)
        /\ lastResp' = h.resp
        /\ UNCHANGED <<pc, loc, whisperVars, files>>

\* get_history: the response of GET /api/history
HistoryResponse(history, tool) ==
    IF tool # ""
    THEN LET filtered == SelectSeq(history, LAMBDA h : Get(h, "name", "") = tool)
         IN  [endpoint |-> "history", history |-> filtered, count |-> Len(filtered)]
    ELSE [endpoint |-> "history", history |-> history, count |-> Len(history)]

GetHistory ==
    \E tool \in HistoryFilters :
        /\ lastResp' = HistoryResponse(jobHistory, tool)
        /\ UNCHANGED <<pc, loc, whisperVars, files, jobHistory, hybridExecuted>>

(***************************************************************************)
(* The thread pool and _get_whisper                                        *)
(***************************************************************************)
\* positions at which a pool worker is running a task of the request
RunningPcs == {"gw_init", "tr_lock", "tr_reset", "tr_run", "tr_parse"}

\* a worker of _thread_pool is idle
PoolFree == Cardinality({r \in Reqs : pc[r] \in RunningPcs}) < POOL_WORKERS

\* the handler starts and submits _get_whisper to the pool
Arrive(r) ==
    /\ pc[r] = "idle"
    /\ pc' = [pc EXCEPT ![r] = "gw_wait"]
    /\ UNCHANGED <<loc, whisperVars, files, jobHistory, lastResp, hybridExecuted>>

\* _get_whisper, line 27: if _whisper_model is None
GetWhisperCheck(r) ==
    /\ pc[r] = "gw_wait"
    /\ PoolFree
    /\ IF whisperModel = 0
       THEN /\ pc' = [pc EXCEPT ![r] = "gw_init"]
            /\ loc' = loc
       ELSE /\ pc' = [pc EXCEPT ![r] = "gw_ret"]
            /\ loc' = [loc EXCEPT ![r].whisper = whisperModel]
    /\ UNCHANGED <<whisperVars, files, jobHistory, lastResp, hybridExecuted>>

\* outcomes of lines 28-29: the weights are missing, or cactus_init returns a model,
\* returns None, or raises
InitOutcomes == {"missing", "model", "none", "raise"}

\* _get_whisper, lines 28-32
GetWhisperInit(r) ==
    /\ pc[r] = "gw_init"
    /\ \E o \in InitOutcomes :
          CASE o = "model" ->
                 /\ inits' = inits + 1
                 /\ whisperModel' = inits + 1
                 /\ loc' = [loc EXCEPT ![r].whisper = inits + 1]
                 /\ pc' = [pc EXCEPT ![r] = "gw_ret"]
            [] o = "raise" ->
                 /\ pc' = [pc EXCEPT ![r] = "gw_exc"]
                 /\ UNCHANGED <<inits, whisperModel, loc>>
            [] o = "none" ->
                 /\ whisperModel' = 0
                 /\ loc' = [loc EXCEPT ![r].whisper = 0]
                 /\ pc' = [pc EXCEPT ![r] = "gw_ret"]
                 /\ UNCHANGED inits
            [] o = "missing" ->
                 /\ loc' = [loc EXCEPT ![r].whisper = whisperModel]
                 /\ pc' = [pc EXCEPT ![r] = "gw_ret"]
                 /\ UNCHANGED <<inits, whisperModel>>
    /\ UNCHANGED <<whisperLock, holds, lastOps, files, jobHistory, lastResp, hybridExecuted>>

\* startup_preload's thread enters _get_whisper, line 27 (it is not a pool worker)
PreloadCheck ==
    /\ pc[PRELOAD] = "idle"
    /\ pc' = [pc EXCEPT ![PRELOAD] = IF whisperModel = 0 THEN "gw_init" ELSE "done"]
    /\ UNCHANGED <<loc, whisperVars, files, jobHistory, lastResp, hybridExecuted>>

\* the preload thread in _get_whisper, lines 28-32; _load prints what it got, and an
\* exception of cactus_init ends the thread
PreloadInit ==
    /\ pc[PRELOAD] = "gw_init"
    /\ \E o \in InitOutcomes :
          CASE o = "model" -> /\ inits' = inits + 1
                              /\ whisperModel' = inits + 1
            [] o = "none"  -> /\ whisperModel' = 0
                              /\ UNCHANGED inits
            [] OTHER       -> UNCHANGED <<inits, whisperModel>>
    /\ pc' = [pc EXCEPT ![PRELOAD] = "done"]
    /\ UNCHANGED <<loc, whisperLock, holds, lastOps, files, jobHistory, lastResp,
                   hybridExecuted>>

\* cactus_init raised: the exception leaves the handler at its first await
WhisperInitFailed(r) ==
    /\ pc[r] = "gw_exc"
    /\ pc' = [pc EXCEPT ![r] = "done"]
    /\ lastResp' = [endpoint |-> KindOf(r), req |-> r, status |-> "error",
                    error |-> "cactus_init"]
    /\ loc' = [loc EXCEPT ![r] = NoLoc]
    /\ UNCHANGED <<whisperVars, files, jobHistory, hybridExecuted>>

(***************************************************************************)
(* _do_transcribe, run by a pool worker                                    *)
(***************************************************************************)
\* a lock that never blocks (not the code: _whisper_lock is a threading.Lock)
CanAcquireAlways(lock) == TRUE

\* threading.Lock: acquire blocks while the lock is held
CanAcquire(lock) == lock = 0

\* the last two calls on the resource
Window(ops, op) == IF Len(ops) < 2 THEN Append(ops, op) ELSE <<ops[2], op>>

\* lines 677-679: no conversion for a .wav upload; otherwise _convert_to_wav, which
\* returns the output path when a non-empty file is there (lines 663-665, also after
\* a non-zero exit of ffmpeg: wav_path "failed_wav"), and else the input path
DoTranscribeConvert(r) ==
    /\ pc[r] = "tr_wait"
    /\ PoolFree
    /\ \E c \in ConvertOutcomes :
          /\ files' = IF c \in {"converted", "failed_partial", "failed_output"}
                      THEN files \cup {<<r, "wav">>} ELSE files
          /\ loc' = [loc EXCEPT ![r].wav_path =
                                   CASE c = "converted"     -> "wav"
                                     [] c = "failed_output" -> "failed_wav"
                                     [] OTHER               -> "tmp"]
    /\ pc' = [pc EXCEPT ![r] = "tr_lock"]
    /\ UNCHANGED <<whisperVars, jobHistory, lastResp, hybridExecuted>>

\* line 681: with _whisper_lock
AcquireWhisperLock(r) ==
    /\ pc[r] = "tr_lock"
    /\ CanAcquire(whisperLock)
    /\ whisperLock' = r
    /\ holds' = holds + 1
    /\ pc' = [pc EXCEPT ![r] = "tr_reset"]
    /\ UNCHANGED <<loc, whisperModel, inits, lastOps, files, jobHistory, lastResp, hybridExecuted>>

\* a critical section without the reset (not the code: line 682 calls cactus_reset)
CactusResetSkipped(r) ==
    /\ pc[r] = "tr_reset"
    /\ pc' = [pc EXCEPT ![r] = "tr_run"]
    /\ UNCHANGED <<loc, whisperVars, files, jobHistory, lastResp, hybridExecuted>>

\* a reset whose exception leaves the lock held (not the code: the with block of
\* line 681 releases it)
CactusResetKeepingLock(r) ==
    /\ pc[r] = "tr_reset"
    /\ lastOps' = Window(lastOps, [req |-> r, op |-> "reset", hold |-> holds])
    /\ \E ok \in BOOLEAN :
          IF ok
          THEN /\ pc' = [pc EXCEPT ![r] = "tr_run"]
               /\ loc' = loc
          ELSE /\ pc' = [pc EXCEPT ![r] = "tr_ret"]
               /\ loc' = [loc EXCEPT ![r].ret = [kind |-> "exc", error |-> "cactus_reset"]]
    /\ UNCHANGED <<whisperLock, whisperModel, inits, holds, files, jobHistory, lastResp,
                   hybridExecuted>>

\* line 682: cactus_reset(whisper); when it raises the with block releases the lock
CactusReset(r) ==
    /\ pc[r] = "tr_reset"
    /\ lastOps' = Window(lastOps, [req |-> r, op |-> "reset", hold |-> holds])
    /\ \E ok \in BOOLEAN :
          IF ok
          THEN /\ pc' = [pc EXCEPT ![r] = "tr_run"]
               /\ UNCHANGED <<whisperLock, loc>>
          ELSE /\ pc' = [pc EXCEPT ![r] = "tr_ret"]
               /\ whisperLock' = 0
               /\ loc' = [loc EXCEPT ![r].ret = [kind |-> "exc", error |-> "cactus_reset"]]
    /\ UNCHANGED <<whisperModel, inits, holds, files, jobHistory, lastResp, hybridExecuted>>

\* lines 683-686: cactus_transcribe(whisper, wav_path, ...), then the with block ends
CactusTranscribe(r) ==
    /\ pc[r] = "tr_run"
    /\ lastOps' = Window(lastOps, [req |-> r, op |-> "transcribe", hold |-> holds])
    /\ whisperLock' = 0
    /\ \E raw \in RawOutcomes, elapsed \in WallClock :
          IF raw.kind = "raise"
          THEN /\ pc' = [pc EXCEPT ![r] = "tr_ret"]
               /\ loc' = [loc EXCEPT ![r].ret = [kind |-> "exc", error |-> "cactus_transcribe"]]
          ELSE /\ pc' = [pc EXCEPT ![r] = "tr_parse"]
               /\ loc' = [loc EXCEPT ![r].ret = [kind |-> "raw", raw |-> raw,
                                                 elapsed |-> elapsed]]
    /\ UNCHANGED <<whisperModel, inits, holds, files, jobHistory, lastResp, hybridExecuted>>

\* lines 688-696: parse the raw output, delete the converted file, return
DoTranscribeReturn(r) ==
    /\ pc[r] = "tr_parse"
    /\ LET raw == loc[r].ret.raw
       IN  IF raw.kind = "badjson"
           THEN /\ loc' = [loc EXCEPT ![r].ret = [kind |-> "exc", error |-> "json.loads"]]
                /\ files' = files
           ELSE /\ loc' = [loc EXCEPT ![r].ret = [kind |-> "ok",
                                                  text |-> Strip(raw.response),
                                                  elapsed |-> loc[r].ret.elapsed]]
                /\ files' = IF loc[r].wav_path # "tmp" THEN files \ {<<r, "wav">>} ELSE files
    /\ pc' = [pc EXCEPT ![r] = "tr_ret"]
    /\ UNCHANGED <<whisperVars, jobHistory, lastResp, hybridExecuted>>

(***************************************************************************)
(* /api/transcribe                                                         *)
(***************************************************************************)
\* lines 704-717: unavailable, or save the upload and submit _do_transcribe
TranscribeAfterWhisper(r) ==
    /\ pc[r] = "gw_ret"
    /\ KindOf(r) = "transcribe"
    /\ IF loc[r].whisper = 0
       THEN /\ pc' = [pc EXCEPT ![r] = "done"]
            /\ lastResp' = [endpoint |-> "transcribe", req |-> r, status |-> "ok",
                            error |-> "Whisper model not available", text |-> <<>>]
            /\ files' = files
            /\ loc' = [loc EXCEPT ![r] = NoLoc]
       ELSE /\ pc' = [pc EXCEPT ![r] = "tr_wait"]
            /\ files' = files \cup {<<r, "tmp">>}
            /\ UNCHANGED <<lastResp, loc>>
    /\ UNCHANGED <<whisperVars, jobHistory, hybridExecuted>>

\* lines 718-723: the result or the error, and the finally block
TranscribeFinish(r) ==
    /\ pc[r] = "tr_ret"
    /\ KindOf(r) = "transcribe"
    /\ lastResp' =
         IF loc[r].ret.kind = "ok"
         THEN [endpoint |-> "transcribe", req |-> r, status |-> "ok", error |-> "none",
               text |-> loc[r].ret.text, latency_ms |-> Round1(loc[r].ret.elapsed)]
         ELSE [endpoint |-> "transcribe", req |-> r, status |-> "ok",
               error |-> loc[r].ret.error, text |-> <<>>]
    /\ files' = files \ {<<r, "tmp">>}
    /\ pc' = [pc EXCEPT ![r] = "done"]
    /\ loc' = [loc EXCEPT ![r] = NoLoc]
    /\ UNCHANGED <<whisperVars, jobHistory, hybridExecuted>>

(***************************************************************************)
(* /api/process_voice                                                      *)
(***************************************************************************)
\* the response of lines 759-766
EmptyVoiceResponse(r, transcribe_ms) ==
    [endpoint |-> "process_voice", req |-> r, status |-> "ok", error |-> "none",
     transcription |-> <<>>, transcribe_latency_ms |-> Round1(transcribe_ms),
     fallback_called |-> FALSE, routed |-> <<>>,
     user_text |-> <<>>, function_calls |-> <<>>, source |-> "none", latency_ms |-> 0]

\* lines 736-766 after _get_whisper: save the upload and submit _do_transcribe, or
\* answer with the empty transcription
VoiceAfterWhisper(r) ==
    /\ pc[r] = "gw_ret"
    /\ KindOf(r) = "process_voice"
    /\ IF loc[r].whisper # 0
       THEN /\ pc' = [pc EXCEPT ![r] = "tr_wait"]
            /\ files' = files \cup {<<r, "tmp">>}
            /\ UNCHANGED <<lastResp, loc>>
       ELSE /\ pc' = [pc EXCEPT ![r] = "done"]
            /\ lastResp' = EmptyVoiceResponse(r, 0)
            /\ files' = files
            /\ loc' = [loc EXCEPT ![r] = NoLoc]
    /\ UNCHANGED <<whisperVars, jobHistory, hybridExecuted>>

\* the transcripts _do_transcribe can return
Transcripts == {Strip(raw.response) : raw \in {o \in RawOutcomes : o.kind = "json"}}

\* what "Step 2" of process_voice_endpoint does on each transcript, router outcome and
\* clock reading
VoiceOutcomes ==
    [text \in Transcripts |->
        { Exchange(VoiceRouting(text, primary, routing_ms, fb_ms, pdfOk),
                   << [role |-> "user", content |-> text] >>, LOCKSMITH_TOOLS, primary,
                   routing_ms) :
            primary \in PrimaryOutcomes, routing_ms \in WallClock,
            fb_ms \in FallbackClock, pdfOk \in BOOLEAN }]

\* a handler that routes whatever transcript came back (not the code: lines 758-765
\* return before "Step 2" when the transcript is empty)
VoiceFinishRoutingEmpty(r) ==
    /\ pc[r] = "tr_ret"
    /\ KindOf(r) = "process_voice"
    /\ files' = files \ {<<r, "tmp">>}
    /\ pc' = [pc EXCEPT ![r] = "done"]
    /\ IF loc[r].ret.kind # "ok"
       THEN /\ lastResp' = EmptyVoiceResponse(r, 0)
            /\ jobHistory' = jobHistory
       ELSE \E v \in VoiceOutcomes[loc[r].ret.text] :
                /\ Len(jobHistory) + Len(v.entries) <= MaxHistory
                /\ jobHistory' = AppendAllHistory(jobHistory, v.entries)
                /\ lastResp' = v.resp @@ [req |-> r, transcription |-> loc[r].ret.text,
                                          transcribe_latency_ms |-> Round1(loc[r].ret.elapsed)]
    /\ loc' = [loc EXCEPT ![r] = NoLoc]
    /\ UNCHANGED <<whisperVars, hybridExecuted>>

\* lines 748-799: the except and finally blocks, then routing, enrichment, execution
VoiceFinish(r) ==
    /\ pc[r] = "tr_ret"
    /\ KindOf(r) = "process_voice"
    /\ files' = files \ {<<r, "tmp">>}
    /\ pc' = [pc EXCEPT ![r] = "done"]
    /\ LET ok   == loc[r].ret.kind = "ok"
           text == IF ok THEN loc[r].ret.text ELSE <<>>
           ms   == IF ok THEN loc[r].ret.elapsed ELSE 0
       IN  IF text = <<>>
           THEN /\ lastResp' = EmptyVoiceResponse(r, ms)
                /\ jobHistory' = jobHistory
           ELSE \E v \in VoiceOutcomes[text] :
                    /\ Len(jobHistory) + Len(v.entries) <= MaxHistory
                    /\ jobHistory' = AppendAllHistory(jobHistory, v.entries)
                    /\ lastResp' = v.resp @@ [req |-> r, transcription |-> text,
                                              transcribe_latency_ms |-> Round1(ms)]
    /\ loc' = [loc EXCEPT ![r] = NoLoc]
    /\ UNCHANGED <<whisperVars, hybridExecuted>>

(***************************************************************************)
(* Direct calls of the pure functions                                      *)
(***************************************************************************)
\* texts of at most MaxTextLen words
TextWords == {"invoice", "for", "Sarah", "Miller", "$250", "jammed"}
Texts == UNION { [1..k -> TextWords] : k \in 0..MaxTextLen }

\* tool names, argument keys and argument values of the calls that are enriched
EnrichNames == {"generate_invoice", "diagnose_lock_fault", "get_weather"}
ArgKeys == {"customer_name", "amount", "priority"}
ArgValues ==
    { <<>>, <<"Customer">>, <<"Customer", " ">>, <<"customer">>, <<"Sarah", "Miller">>,
      <<"int 0">>, <<"bool False">>, <<"int 7">> }
ArgMaps == UNION { [keys -> ArgValues] : keys \in SUBSET ArgKeys }

\* _enrich_arguments(name, args, user_text), and once more on what it returned
EnrichArguments ==
    /\ lastResp.endpoint = "none"
    /\ \E name \in EnrichNames, args \in ArgMaps, user_text \in Texts :
          lastResp' = [endpoint |-> "enrich", name |-> name, args |-> args,
                       user_text |-> user_text,
                       once |-> _enrich_arguments(name, args, user_text),
                       twice |-> _enrich_arguments(
                                    name, _enrich_arguments(name, args, user_text),
                                    user_text)]
    /\ UNCHANGED <<pc, loc, whisperVars, files, jobHistory, hybridExecuted>>

\* utterances given to _keyword_fallback: one user message of at most MaxTextLen words
FallbackWords ==
    {"jammed", "completed", "checklist", "part", "schedule", "dispatch", "invoice",
     "on", "door", "for", "Sarah"}
FallbackTexts == UNION { [1..k -> FallbackWords] : k \in 0..MaxTextLen }

\* tool catalogs: the sub-catalogs of LOCKSMITH_TOOLS
Catalogs ==
    { SelectSeq(LOCKSMITH_TOOLS, LAMBDA t : t.name \in names) :
        names \in SUBSET {LOCKSMITH_TOOLS[i].name : i \in 1..Len(LOCKSMITH_TOOLS)} }

\* _keyword_fallback(messages, tools)
KeywordFallback ==
    /\ lastResp.endpoint = "none"
    /\ \E text \in FallbackTexts, tools \in Catalogs, elapsed \in FallbackClock :
          lastResp' = [endpoint |-> "fallback", text |-> text, tools |-> tools,
                       out |-> _keyword_fallback(<< [role |-> "user", content |-> text] >>,
                                                 tools, elapsed)]
    /\ UNCHANGED <<pc, loc, whisperVars, files, jobHistory, hybridExecuted>>

\* calls that are scored: same tool with equal, differently written, missing and
\* other argument values, and another tool
ScoredCalls ==
    { [name |-> "schedule_followup", arguments |-> [customer_name |-> <<"Customer">>]],
      [name |-> "schedule_followup", arguments |-> [customer_name |-> <<"customer", " ">>]],
      [name |-> "schedule_followup", arguments |-> [customer_name |-> <<"Sarah">>,
                                                    date |-> <<"tuesday">>]],
      [name |-> "schedule_followup", arguments |-> <<>>],
      [name |-> "generate_checklist", arguments |-> [job_type |-> <<"rekey">>]] }
CallLists == UNION { [1..k -> ScoredCalls] : k \in 0..MaxCalls }

\* calls that are compared: two tools, a name written four ways or absent, an
\* integer amount or none, and a call without an "arguments" entry
MatchNames == {"schedule_followup", "generate_invoice"}
MatchArguments ==
    UNION { [keys -> {<<"Customer">>, <<"customer", " ">>, <<"Sarah">>, <<"int 0">>, <<"int 7">>}]
            : keys \in SUBSET {"customer_name", "amount"} }
ComparedArguments ==
    { a \in MatchArguments :
        /\ "customer_name" \in DOMAIN a => a["customer_name"] \notin NonStrings
        /\ "amount" \in DOMAIN a => a["amount"] \in NonStrings }
ComparedCalls ==
    { [name |-> n, arguments |-> a] : n \in MatchNames, a \in ComparedArguments }
    \cup { [name |-> "schedule_followup"] }

\* _call_matches(predicted, expected)
CallMatches ==
    /\ lastResp.endpoint = "none"
    /\ \E predicted \in ComparedCalls, expected \in ComparedCalls :
          lastResp' = [endpoint |-> "match", predicted |-> predicted,
                       expected |-> expected,
                       result |-> _call_matches(predicted, expected)]
    /\ UNCHANGED <<pc, loc, whisperVars, files, jobHistory, hybridExecuted>>

\* benchmark results as run_benchmark builds them (lines 831-839): a difficulty, an
\* F1 score, a latency and a source
ScoredResults ==
    [difficulty : {"easy", "medium", "hard", "expert"},
     f1 : {Frac(0, 1), Frac(4, 5), Frac(1, 1)},
     total_time_ms : {0, 250, 900},
     source : {"on-device", "cloud"}]
ResultLists == UNION { [1..k -> ScoredResults] : k \in 0..MaxResults }

\* compute_total_score(results)
ComputeTotalScore ==
    /\ lastResp.endpoint = "none"
    /\ \E results \in ResultLists :
          lastResp' = [endpoint |-> "score", results |-> results,
                       levels |-> LevelScores(results),
                       total |-> compute_total_score(results)]
    /\ UNCHANGED <<pc, loc, whisperVars, files, jobHistory, hybridExecuted>>

\* compute_f1(predicted_calls, expected_calls)
ComputeF1 ==
    /\ lastResp.endpoint = "none"
    /\ \E predicted_calls \in CallLists, expected_calls \in CallLists :
          lastResp' = [endpoint |-> "f1", predicted |-> predicted_calls,
                       expected |-> expected_calls,
                       matched |-> Matched(predicted_calls, expected_calls),
                       taken |-> Taken(predicted_calls, expected_calls),
                       f1 |-> compute_f1(predicted_calls, expected_calls)]
    /\ UNCHANGED <<pc, loc, whisperVars, files, jobHistory, hybridExecuted>>

(***************************************************************************)
(* Specifications                                                          *)
(***************************************************************************)
\* the steps of the pool workers
Worker(r) ==
    \/ GetWhisperCheck(r)
    \/ GetWhisperInit(r)
    \/ DoTranscribeConvert(r)
    \/ AcquireWhisperLock(r)
    \/ CactusReset(r)
    \/ CactusTranscribe(r)
    \/ DoTranscribeReturn(r)

\* the event-loop steps of a transcribing request
Handler(r) ==
    \/ Arrive(r)
    \/ WhisperInitFailed(r)
    \/ TranscribeAfterWhisper(r)
    \/ TranscribeFinish(r)
    \/ VoiceAfterWhisper(r)
    \/ VoiceFinish(r)

\* the routing handlers, the history query and one voice request
Next ==
    \/ HybridEndpoint
    \/ GetHistory
    \/ Arrive(1)
    \/ WhisperInitFailed(1)
    \/ VoiceAfterWhisper(1)
    \/ VoiceFinish(1)
    \/ Worker(1)

Spec == Init /\ [][Next]_vars

\* NumRequests transcribing requests and their worker threads
NextWhisper == \E r \in Reqs : Handler(r) \/ Worker(r)

SpecWhisper == Init /\ [][NextWhisper]_vars

\* the same with a fair scheduler: a thread that can take a step takes one, a thread
\* that is again and again able to take the lock or a pool worker gets it, and every
\* call of the inference library returns
FairWhisper ==
    /\ SpecWhisper
    /\ \A r \in Reqs : /\ WF_vars(Handler(r) \/ Worker(r))
                        /\ SF_vars(AcquireWhisperLock(r))
                        /\ SF_vars(GetWhisperCheck(r) \/ DoTranscribeConvert(r))

\* the preload thread and the requests up to the return of _get_whisper
NextPreload ==
    \/ PreloadCheck
    \/ PreloadInit
    \/ \E r \in Reqs :
          \/ Arrive(r)
          \/ GetWhisperCheck(r)
          \/ GetWhisperInit(r)
          \/ WhisperInitFailed(r)
          \/ TranscribeAfterWhisper(r)
          \/ VoiceAfterWhisper(r)

SpecPreload == Init /\ [][NextPreload]_vars

\* one call of _enrich_arguments, followed by a call on its result
NextEnrich == EnrichArguments

SpecEnrich == Init /\ [][NextEnrich]_vars

\* one call of _keyword_fallback
NextFallback == KeywordFallback

SpecFallback == Init /\ [][NextFallback]_vars

\* one call of compute_f1
NextF1 == ComputeF1

SpecF1 == Init /\ [][NextF1]_vars

\* one call of _call_matches
NextMatch == CallMatches

SpecMatch == Init /\ [][NextMatch]_vars

\* one call of compute_total_score
NextScore == ComputeTotalScore

SpecScore == Init /\ [][NextScore]_vars

(***************************************************************************)
(* Properties                                                              *)
(***************************************************************************)
\* the last exchange went through the routing step of a routing endpoint
IsRouting(resp) == resp.endpoint \in {"hybrid", "process_voice"} /\ "request" \in DOMAIN resp

\* the calls of the routing result that the exchange's response is built from
RoutedCalls(request) ==
    IF request.primary.raised
    THEN _keyword_fallback(request.messages, request.tools, 0).function_calls
    ELSE request.primary.result.function_calls

\* the source tag of that routing result
RoutedSource(request) ==
    IF request.primary.raised
    THEN _keyword_fallback(request.messages, request.tools, 0).source
    ELSE request.primary.result.source

\* the last Len(resp.function_calls) entries of the log are the calls of resp, in order
Logged(history, resp) ==
    LET n == Len(resp.function_calls)
        h == Len(history)
    IN  /\ h >= n
        /\ \A i \in 1..n :
              /\ history[h - n + i].name = resp.function_calls[i].name
              /\ history[h - n + i].arguments = resp.function_calls[i].arguments
              /\ history[h - n + i].result = resp.function_calls[i].result
              /\ resp.status = "ok" => /\ history[h - n + i].source = resp.source
                                       /\ history[h - n + i].latency_ms = resp.latency_ms

\* C1: on /api/hybrid and in the routing step of /api/process_voice the keyword
\* fallback is called exactly when generate_hybrid raised; the calls that are
\* enriched, executed and returned are then those of the fallback on the request's
\* messages and tools, and otherwise those of the primary router's result, even
\* when it holds no call.
C1_FallbackIffPrimaryRaised ==
    IsRouting(lastResp) =>
        /\ lastResp.fallback_called = lastResp.request.primary.raised
        /\ lastResp.error # "fallback" => lastResp.routed = RoutedCalls(lastResp.request)
        /\ lastResp.status = "ok" =>
              /\ lastResp.function_calls =
                    ExecuteCalls(EnrichCalls([function_calls |-> RoutedCalls(lastResp.request)],
                                             lastResp.user_text), TRUE).executed
              /\ lastResp.source = RoutedSource(lastResp.request)

\* a voice request whose primary router raised is answered with the executed calls of
\* the fallback
C1_Witness ==
    /\ IsRouting(lastResp)
    /\ lastResp.endpoint = "process_voice"
    /\ lastResp.request.primary.raised
    /\ lastResp.status = "ok"
    /\ lastResp.fallback_called
    /\ lastResp.function_calls # <<>>

\* C2: at most one worker thread at a time is between acquiring _whisper_lock and
\* the end of cactus_transcribe, whatever the interleaving of the requests.
C2_OneThreadInWhisperSection ==
    Cardinality({r \in Reqs : pc[r] \in {"tr_reset", "tr_run"}}) <= 1

\* one worker is about to call cactus_transcribe while another waits for the lock
C2_Witness ==
    \E r1, r2 \in Reqs : r1 # r2 /\ pc[r1] = "tr_run" /\ pc[r2] = "tr_lock"

\* C3: every cactus_transcribe on the shared model comes directly after a cactus_reset
\* of the same request in the same hold of _whisper_lock, and a thread that is about
\* to reset or transcribe holds the lock.
C3_ResetBeforeTranscribe ==
    /\ \A r \in Reqs : pc[r] \in {"tr_reset", "tr_run"} => whisperLock = r
    /\ (lastOps # <<>> /\ lastOps[Len(lastOps)].op = "transcribe") =>
          /\ Len(lastOps) = 2
          /\ lastOps[1] = [req |-> lastOps[2].req, op |-> "reset", hold |-> lastOps[2].hold]

\* the second hold of the lock ends with a transcription
C3_Witness ==
    /\ Len(lastOps) = 2
    /\ lastOps[2].op = "transcribe"
    /\ lastOps[2].hold = 2

\* C4: on both routing endpoints every call executed through execute_tool has one
\* entry in the history log with its name, arguments, result, source and latency.
C4_EveryExecutedCallLogged ==
    IsRouting(lastResp) => Logged(jobHistory, lastResp)

C6_HistoryAppendOnly ==
    [][/\ Len(jobHistory) <= Len(jobHistory')
       /\ SubSeq(jobHistory', 1, Len(jobHistory)) = jobHistory]_vars

\* a filtered history query has answered with fewer entries than the log holds, after
\* the voice request has finished
C6_Witness ==
    /\ lastResp.endpoint = "history"
    /\ lastResp.count < Len(jobHistory)
    /\ Len(jobHistory) >= 2
    /\ pc[1] = "done"

\* C7: once a transcribing request has finished, neither its temporary input file nor
\* a WAV file written for it exists.
C7_TempFilesDeleted ==
    \A r \in Reqs : pc[r] = "done" => <<r, "tmp">> \notin files /\ <<r, "wav">> \notin files

\* C8: _keyword_fallback returns a result envelope and never raises.
C8_FallbackTotal ==
    IsRouting(lastResp) /\ lastResp.fallback_called => lastResp.error # "fallback"

\* C9: execute_tool returns a payload and never raises, also when PDF rendering fails.
C9_ExecuteToolNeverRaises ==
    IsRouting(lastResp) => lastResp.error # "execute_tool"

\* C10: on both endpoints and after either router, the arguments of every call that
\* is executed and returned are _enrich_arguments of the routed call's arguments and
\* the concatenated user text, and the result is execute_tool of the enriched call.
C10_EveryCallEnriched ==
    (IsRouting(lastResp) /\ lastResp.error \notin {"fallback", "user_text"}) =>
        LET text   == UserText(lastResp.request.messages)
            routed == RoutedCalls(lastResp.request)
            calls  == lastResp.function_calls
        IN  /\ lastResp.user_text = text
            /\ Len(calls) <= Len(routed)
            /\ lastResp.status = "ok" => Len(calls) = Len(routed)
            /\ \A i \in 1..Len(calls) :
                  /\ calls[i].name = routed[i].name
                  /\ calls[i].arguments =
                        _enrich_arguments(routed[i].name, Get(routed[i], "arguments", <<>>),
                                          text)
                  /\ calls[i].result =
                        execute_tool(calls[i].name, calls[i].arguments, TRUE).result

\* the primary router's call came back with arguments that enrichment changed
C10_Witness ==
    /\ IsRouting(lastResp)
    /\ ~lastResp.request.primary.raised
    /\ lastResp.status = "ok"
    /\ \E i \in 1..Len(lastResp.function_calls) :
          lastResp.function_calls[i].arguments # Get(lastResp.routed[i], "arguments", <<>>)

\* the argument keys the extraction rule of the tool produces from the text
RuleKeys(name, user_text) ==
    IF HasExtractor(name) THEN DOMAIN Extract(name, user_text) ELSE {}

\* an empty string, or a string that is a placeholder after trimming
IsPlaceholder(v) == v = <<>> \/ (v \notin NonStrings /\ Strip(v) \in _DEFAULT_VALUES)

\* C11: _enrich_arguments changes a key only when the tool's rule produces it and the
\* existing value is absent, empty or a placeholder after trimming; every other key
\* and every other present value (0 and False too) is kept, no key is removed, and
\* without a rule for the name the arguments come back unchanged.
C11_EnrichFrame ==
    lastResp.endpoint = "enrich" =>
        /\ DOMAIN lastResp.args \subseteq DOMAIN lastResp.once
        /\ \A k \in DOMAIN lastResp.once \ DOMAIN lastResp.args :
              k \in RuleKeys(lastResp.name, lastResp.user_text)
        /\ \A k \in DOMAIN lastResp.args :
              lastResp.once[k] # lastResp.args[k] =>
                  /\ k \in RuleKeys(lastResp.name, lastResp.user_text)
                  /\ IsPlaceholder(lastResp.args[k])
        /\ ~HasExtractor(lastResp.name) => lastResp.once = lastResp.args

\* C12: _enrich_arguments applied to its own result with the same text returns that
\* result.
C12_EnrichIdempotent ==
    lastResp.endpoint = "enrich" => lastResp.twice = lastResp.once

\* the first call filled a key with a value that is itself a placeholder, so the
\* second call fills that key again
C12_Witness ==
    /\ lastResp.endpoint = "enrich"
    /\ lastResp.once # lastResp.args
    /\ \E k \in DOMAIN lastResp.once :
          /\ k \in DOMAIN lastResp.args
          /\ lastResp.once[k] # lastResp.args[k]
          /\ Fillable(lastResp.once[k])
    /\ lastResp.twice = lastResp.once

\* the names of the tools of a catalog
CatalogNames(tools) == {tools[i].name : i \in 1..Len(tools)}

\* the required parameters of the tool in the catalog
RequiredOf(tools, name) ==
    UNION {tools[i].required : i \in {j \in 1..Len(tools) : tools[j].name = name}}

\* C13: every call returned by _keyword_fallback names a tool of the catalog it was
\* given; a rule whose tool is not in the catalog adds no call, whatever the text.
C13_FallbackCallsInCatalog ==
    lastResp.endpoint = "fallback" =>
        \A i \in 1..Len(lastResp.out.function_calls) :
            lastResp.out.function_calls[i].name \in CatalogNames(lastResp.tools)

\* the text activates the rule of a tool that is missing from the catalog and the
\* rule of a tool that is in it
C13_Witness ==
    /\ lastResp.endpoint = "fallback"
    /\ lastResp.out.function_calls # <<>>
    /\ \E i \in 1..Len(PatternTools) :
          /\ Activates(PatternTools[i], Lower(lastResp.text))
          /\ PatternTools[i] \notin CatalogNames(lastResp.tools)

\* C14: every call of _keyword_fallback has a value for every required parameter of
\* its tool's schema.
C14_RequiredParametersPresent ==
    lastResp.endpoint = "fallback" =>
        \A i \in 1..Len(lastResp.out.function_calls) :
            RequiredOf(lastResp.tools, lastResp.out.function_calls[i].name)
                \subseteq DOMAIN lastResp.out.function_calls[i].arguments

\* C15: the source of a fallback result is "cloud" exactly when the invoice rule, the
\* one rule with the remote flag, fired, and "on-device" otherwise, also when no rule
\* fired.
C15_FallbackSourceTag ==
    lastResp.endpoint = "fallback" =>
        /\ lastResp.out.source \in {"cloud", "on-device"}
        /\ lastResp.out.source = "cloud" <=>
              \E i \in 1..Len(lastResp.out.function_calls) :
                  lastResp.out.function_calls[i].name = "generate_invoice"

\* the invoice rule and another rule fired, and the source is "cloud"
C15_Witness ==
    /\ lastResp.endpoint = "fallback"
    /\ Len(lastResp.out.function_calls) >= 2
    /\ lastResp.out.source = "cloud"

\* C16: on both routing endpoints and after either router, the routing latency in the
\* response is the rounded wall-clock time measured around the routing call, not the
\* total_time_ms of the routing result.
C16_LatencyIsWallClock ==
    (IsRouting(lastResp) /\ lastResp.status = "ok") =>
        lastResp.latency_ms = Round1(lastResp.request.wall)

\* C17: whatever the interleaving of the preload thread and the requests that call
\* _get_whisper, cactus_init constructs the model at most once, and once constructed
\* every _get_whisper call returns that one instance.
C17_WhisperConstructedOnce ==
    /\ inits <= 1
    /\ \A r \in Reqs : loc[r].whisper # 0 => loc[r].whisper = whisperModel

\* C18: when the model could not be constructed, an /api/transcribe request ends with
\* the "unavailable" result and empty text, without raising, without a temporary file
\* and without a call of cactus_reset or cactus_transcribe.
C18_UnavailableResult ==
    (/\ lastResp.endpoint = "transcribe"
     /\ lastResp.error \in {"Whisper model not available", "cactus_init"}) =>
        /\ lastResp.status = "ok"
        /\ lastResp.error = "Whisper model not available"
        /\ lastResp.text = <<>>
        /\ <<lastResp.req, "tmp">> \notin files
        /\ \A i \in 1..Len(lastOps) : lastOps[i].req # lastResp.req

\* C19: when the conversion failed, inference runs on the uploaded file, never on an
\* output of the failed conversion.
C19_FailedConversionUsesOriginal ==
    \A r \in Reqs : pc[r] = "tr_run" => loc[r].wav_path # "failed_wav"

\* C20: compute_f1 is 1 when both lists are empty and 0 when exactly one is; otherwise
\* it is 0 when nothing matched, and else F1 with F1 * (p + r) = 2 * p * r for
\* p = matched / len(predicted) and r = matched / len(expected); one matching
\* predicted call against two expected calls gives 2/3.
C20_F1Reference ==
    lastResp.endpoint = "f1" =>
        LET np == Len(lastResp.predicted)
            ne == Len(lastResp.expected)
            m  == lastResp.matched
            f  == lastResp.f1
        IN  /\ f.den > 0 /\ f.num >= 0 /\ GCD(f.num, f.den) = 1
            /\ (np = 0 /\ ne = 0) => (f.num = 1 /\ f.den = 1)
            /\ ((np = 0) # (ne = 0)) => f.num = 0
            /\ (np > 0 /\ ne > 0 /\ m = 0) => f.num = 0
            /\ (np > 0 /\ ne > 0 /\ m > 0) =>
                  f.num * (m * ne + m * np) = 2 * m * m * f.den
            /\ (np = 1 /\ ne = 2 /\ m = 1) => (f.num = 2 /\ f.den = 3)

\* one predicted call, matching one of two expected calls
C20_Witness ==
    /\ lastResp.endpoint = "f1"
    /\ Len(lastResp.predicted) = 1
    /\ Len(lastResp.expected) = 2
    /\ lastResp.matched = 1
    /\ lastResp.f1 = [num |-> 2, den |-> 3]

\* two argument values are equal after normalisation: strings after trimming and
\* lower-casing, other values as they are
NormEq(a, b) ==
    IF a \in NonStrings \/ b \in NonStrings THEN a = b
    ELSE Lower(Strip(a)) = Lower(Strip(b))

ArgsOf(call) == IF "arguments" \in DOMAIN call THEN call.arguments ELSE <<>>

\* C21: a predicted call matches an expected call iff the names are equal and every
\* argument key of the expected call is in the predicted call with a normalized-equal
\* value; extra predicted keys never prevent a match, a missing expected key always
\* does.
C21_CallMatchesIff ==
    lastResp.endpoint = "match" =>
        LET pa == ArgsOf(lastResp.predicted)
            ea == ArgsOf(lastResp.expected)
            agree == /\ lastResp.predicted.name = lastResp.expected.name
                     /\ \A key \in DOMAIN ea :
                           key \in DOMAIN pa /\ NormEq(pa[key], ea[key])
        IN  /\ lastResp.result <=> agree
            /\ (\E key \in DOMAIN ea : key \notin DOMAIN pa) => ~lastResp.result
            /\ (agree /\ DOMAIN pa # DOMAIN ea) => lastResp.result

\* a match in spite of an extra predicted key and a differently written value
C21_Witness ==
    /\ lastResp.endpoint = "match"
    /\ lastResp.result
    /\ ArgsOf(lastResp.predicted) = [customer_name |-> <<"Customer">>, amount |-> <<"int 7">>]
    /\ ArgsOf(lastResp.expected) = [customer_name |-> <<"customer", " ">>]

\* the orderings of a list
Orderings(s) ==
    { [i \in 1..Len(s) |-> s[f[i]]] :
        f \in { g \in [1..Len(s) -> 1..Len(s)] : \A i, j \in 1..Len(s) : g[i] = g[j] => i = j } }

\* C22: for a fixed predicted list, the matched count and the value of compute_f1 are
\* the same for every ordering of the expected list.
C22_F1PermutationInvariant ==
    lastResp.endpoint = "f1" =>
        \A shuffled \in Orderings(lastResp.expected) :
            /\ Matched(lastResp.predicted, shuffled) = lastResp.matched
            /\ compute_f1(lastResp.predicted, shuffled) = lastResp.f1

\* sums over the results of one level: F1 in fifths, latency in ms, results on device
RECURSIVE SumOver(_, _)
SumOver(group, what) ==
    IF group = <<>> THEN 0
    ELSE SumOver(Tail(group), what)
         + CASE what = "f1"   -> (5 * Head(group).f1.num) \div Head(group).f1.den
             [] what = "time" -> Head(group).total_time_ms
             [] OTHER         -> IF Head(group).source = "on-device" THEN 1 ELSE 0

LevelOf(results, d) == SelectSeq(results, LAMBDA r : r.difficulty = d)

\* 10000 * len(group) * (wf * avg_f1 + wt * max(0, 1 - avg_latency_ms / 500) + wr * ratio),
\* for weights wf, wt, wr given in percent
WeightedLevel(group, wf, wt, wr) ==
    20 * wf * SumOver(group, "f1")
    + (IF 500 * Len(group) > SumOver(group, "time")
       THEN (wt \div 5) * (500 * Len(group) - SumOver(group, "time")) ELSE 0)
    + 100 * wr * SumOver(group, "on-device")

\* the numerator and denominator of a level's score, 0/1 for a level without results
LevelNum(d) == IF d \in DOMAIN lastResp.levels THEN lastResp.levels[d].num ELSE 0
LevelDen(d) == IF d \in DOMAIN lastResp.levels THEN lastResp.levels[d].den ELSE 1

C24_ScoresBounded ==
    lastResp.endpoint = "score" =>
        /\ \A d \in DOMAIN lastResp.levels :
              /\ lastResp.levels[d].den > 0
              /\ 0 <= lastResp.levels[d].num
              /\ lastResp.levels[d].num <= lastResp.levels[d].den
        /\ lastResp.total.den > 0
        /\ 0 <= lastResp.total.num
        /\ lastResp.total.num <= 100 * lastResp.total.den

\* one level at the upper bound and one at the lower bound, the latter with a latency
\* over the baseline
C24_Witness ==
    /\ lastResp.endpoint = "score"
    /\ \E d, e \in DOMAIN lastResp.levels :
          /\ lastResp.levels[d] = [num |-> 1, den |-> 1]
          /\ lastResp.levels[e] = [num |-> 0, den |-> 1]
          /\ SumOver(LevelOf(lastResp.results, e), "time")
                > 500 * Len(LevelOf(lastResp.results, e))

\* C25: within each level, compute_total_score weights F1 at 50%, the time score at 25%
\* and the on-device ratio at 25%, as its docstring states.
C25_DocumentedWeights ==
    lastResp.endpoint = "score" =>
        \A d \in DOMAIN lastResp.levels :
            lastResp.levels[d].num * 10000 * Len(LevelOf(lastResp.results, d))
              = lastResp.levels[d].den * WeightedLevel(LevelOf(lastResp.results, d), 50, 25, 25)

\* the pairs <<k, i>> where predicted call i matches expected call k
Matching(predicted, expected) ==
    { ki \in (1..Len(expected)) \X (1..Len(predicted)) :
        _call_matches(predicted[ki[2]], expected[ki[1]]) }

OneToOne(pairs) ==
    \A a, b \in pairs : (a[1] = b[1] \/ a[2] = b[2]) => a = b

\* the size of a maximum-cardinality matching
MaxMatching(predicted, expected) ==
    LET sizes == { Cardinality(m) : m \in { n \in SUBSET Matching(predicted, expected) :
                                               OneToOne(n) } }
    IN  CHOOSE x \in sizes : \A y \in sizes : y <= x

Min(a, b) == IF a <= b THEN a ELSE b

\* C26: the F1 matching is greedy and at most one-to-one: expected calls are processed in
\* order, each takes the first not-yet-used predicted call that matches it, no call is
\* matched twice, and matched exceeds neither min(len(predicted), len(expected)) nor the
\* size of a maximum-cardinality matching.
C26_GreedyOneToOne ==
    lastResp.endpoint = "f1" =>
        LET P == lastResp.predicted
            E == lastResp.expected
            T == lastResp.taken
            free(k) == { i \in 1..Len(P) :
                           /\ _call_matches(P[i], E[k])
                           /\ ~\E b \in T : b[1] < k /\ b[2] = i }
        IN  /\ T \subseteq Matching(P, E)
            /\ OneToOne(T)
            /\ \A k \in 1..Len(E) :
                  IF free(k) = {} THEN ~\E b \in T : b[1] = k
                  ELSE \E i \in free(k) : /\ <<k, i>> \in T
                                           /\ \A j \in free(k) : i <= j
            /\ (P # <<>> /\ E # <<>>) => lastResp.matched = Cardinality(T)
            /\ lastResp.matched <= Min(Len(P), Len(E))
            /\ lastResp.matched <= MaxMatching(P, E)

\* the greedy pass matched fewer calls than a maximum matching would: the first
\* expected call took the only predicted call the second one matches, and a later
\* predicted call that the first one matches stayed unused
C26_Witness ==
    /\ lastResp.endpoint = "f1"
    /\ lastResp.taken = {<<1, 1>>}
    /\ lastResp.matched = 1
    /\ MaxMatching(lastResp.predicted, lastResp.expected) = 2

\* a string that equals a placeholder value after trimming and lower-casing both
NormalizedPlaceholder(v) ==
    /\ v \notin NonStrings
    /\ \E d \in _DEFAULT_VALUES : Lower(Strip(v)) = Lower(Strip(d))

\* C27: the enrichment placeholder test, like the scoring comparison, takes two strings
\* as equal exactly when they are equal after lower-casing and trimming, so an existing
\* argument that differs from a placeholder only in letter case or surrounding
\* whitespace is overwritten by the value the rule extracts (stated for extracted
\* values that are not placeholders themselves).
C27_PlaceholderIgnoresCaseAndSpace ==
    lastResp.endpoint = "enrich" =>
        \A k \in DOMAIN lastResp.args \cap RuleKeys(lastResp.name, lastResp.user_text) :
            ( /\ NormalizedPlaceholder(lastResp.args[k])
              /\ ~NormalizedPlaceholder(Extract(lastResp.name, lastResp.user_text)[k]) )
            => lastResp.once[k] = Extract(lastResp.name, lastResp.user_text)[k]

AnswersEmptyTranscript ==
    \E r \in Reqs :
        /\ KindOf(r) = "process_voice"
        /\ pc[r] # "done" /\ pc'[r] = "done"
        /\ "transcription" \in DOMAIN lastResp'
        /\ lastResp'.transcription = <<>>

\* C29: when the transcript of a voice request is empty (the resource is unavailable, the
\* transcription failed, or the transcript is blank), no router and no tool handler runs
\* and the history stays as it is; the response has no function calls, source "none"
\* and routing latency 0.
C29_EmptyTranscriptSkipsRouting ==
    [][AnswersEmptyTranscript =>
          /\ jobHistory' = jobHistory
          /\ hybridExecuted' = hybridExecuted
          /\ "request" \notin DOMAIN lastResp'
          /\ lastResp'.routed = <<>>
          /\ ~lastResp'.fallback_called
          /\ lastResp'.function_calls = <<>>
          /\ lastResp'.source = "none"
          /\ lastResp'.latency_ms = 0]_vars

\* the answer to a voice request whose transcription ran and came back blank
C29_Witness ==
    /\ lastResp.endpoint = "process_voice"
    /\ lastResp.status = "ok"
    /\ lastResp.transcription = <<>>
    /\ lastResp.transcribe_latency_ms > 0
    /\ lastResp.function_calls = <<>>

\* C30: when the routing result comes from the keyword fallback, enrichment leaves every
\* call's arguments as the fallback produced them, same keys and same values.
C30_EnrichmentKeepsFallbackArguments ==
    (IsRouting(lastResp) /\ lastResp.fallback_called /\ lastResp.status = "ok") =>
        /\ Len(lastResp.function_calls) = Len(lastResp.routed)
        /\ \A i \in 1..Len(lastResp.routed) :
              /\ lastResp.function_calls[i].name = lastResp.routed[i].name
              /\ lastResp.function_calls[i].arguments = lastResp.routed[i].arguments

\* the fallback produced a call with a placeholder value, which enrichment replaces
\* with the value it extracts itself
C30_Witness ==
    /\ IsRouting(lastResp)
    /\ lastResp.fallback_called
    /\ lastResp.status = "ok"
    /\ \E i \in 1..Len(lastResp.routed) :
          \E k \in DOMAIN lastResp.routed[i].arguments :
              /\ Fillable(lastResp.routed[i].arguments[k])
              /\ lastResp.function_calls[i].arguments[k] = lastResp.routed[i].arguments[k]

====
